---- MODULE Spec2Model ----
(***************************************************************************)
(* Model of the flow-graph editor of the dashboard                         *)
(* (src/app/(protected)/dashboard/flow.tsx): the live node and edge        *)
(* collections, the snapshot history with its cursor, the persisted        *)
(* localStorage slot 'flow' and the handlers that mutate them.  Every      *)
(* handler is one action: the state updates it queues, the render that     *)
(* commits them and the save/history effect that then runs.                *)
(***************************************************************************)
EXTENDS Integers, Sequences, FiniteSets, TLC

VARIABLES
  pc,                \* "init" | "loaded" | "saved0" | "ready": position in the mount sequence
  nodes,             \* useNodesState: the live node collection
  edges,             \* useEdgesState: the live edge collection
  history,           \* useState<FlowState[]>: entries
  currentStep,       \* useState(0): cursor (0-based, as in the source)
  isInitialLoadDone, \* useRef(false)
  storage,           \* localStorage item 'flow'
  pending,           \* state updates queued by the load effect, committed by the next render
  selectedNode,      \* useState<Node|null>: id of the selected node, 0 for null
  dragNode,          \* render layer: id of the node of the drag gesture in progress, 0 for none
  dragAppends,       \* history entries appended by position updates of the gesture in progress (2: two or more)
  loadedRefs,        \* ids of the live nodes that are still the very objects history[0] holds since the load
  listeners,         \* window: the listener sets registered for 'deleteNode', 'changeNodeType' and
                     \* 'updateNodeData', each with the selectedNode its handlers closed over
  editor,            \* an Editor component: its editorRef, its initEditor calls and the EditorJS instances
  upload             \* the upload route: the request POST is handling and the assets of the media host

vars == <<pc, nodes, edges, history, currentStep, isInitialLoadDone, storage,
          pending, selectedNode, dragNode, dragAppends, loadedRefs, listeners,
          editor, upload>>

(***************************************************************************)
(* Bounds                                                                  *)
(***************************************************************************)
MaxHist  == 3      \* entries of the history a session fills by moving, deleting and clearing
MaxNodes == 1      \* live nodes below which the toolbar adds a node
MaxPos  == 1       \* positions are 0..MaxPos
NumColors == 1     \* palette entries the user and Math.random pick from
MaxInits == 4      \* initEditor calls of one Editor component (mount and re-runs of its effect)
MaxAssets == 4     \* assets the media host holds before the session of requests ends

Positions == 0..MaxPos

(***************************************************************************)
(* Program constants                                                       *)
(***************************************************************************)
AVAILABLE_SHAPES == <<"rectangle", "circle">>
COLORS == <<"#2563eb", "#16a34a", "#dc2626", "#ca8a04",
            "#9333ea", "#0891b2", "#ea580c", "#be185d">>

Shapes == {AVAILABLE_SHAPES[i] : i \in DOMAIN AVAILABLE_SHAPES}

Range(s) == {s[i] : i \in DOMAIN s}

(***************************************************************************)
(* Shape registry                                                          *)
(***************************************************************************)
NodeIds(nds) == {nds[i].id : i \in DOMAIN nds}

\* nanoid(): an id that no object of the session carries.  Ids are opaque, so
\* the least id that occurs nowhere in the state stands for a fresh one.
IdsOf(nds, eds) == NodeIds(nds) \cup {eds[i].id : i \in DOMAIN eds}
UsedIds ==
  IdsOf(nodes, edges) \cup IdsOf(pending.nodes, pending.edges)
    \cup UNION {IdsOf(history[i].nodes, history[i].edges) : i \in DOMAIN history}
    \cup {selectedNode, dragNode}
\* variant of the generator: it hands out the id of the first live node again
nanoid_Reused == IF nodes = << >> THEN 1 ELSE nodes[1].id
nanoid == CHOOSE id \in 1..(Cardinality(UsedIds) + 1) :
            id \notin UsedIds /\ \A j \in 1..(id - 1) : j \in UsedIds

\* variant of the template: the id is the base id alone
handleIdOf_BaseOnly(baseId, suffix) == <<baseId, "">>
\* `${baseId}-left-target`: the base id and the suffix of the point
handleIdOf(baseId, suffix) == <<baseId, suffix>>

\* variant of the switch: the default branch falls back to the rectangle
handlesOn_RectangleDefault(shapeType, baseId) ==
  IF shapeType = "circle"
  THEN << [type |-> "target", position |-> "top",    id |-> <<baseId, "top-target">>,    style |-> "left:50%"],
          [type |-> "source", position |-> "bottom", id |-> <<baseId, "bottom-source">>, style |-> "left:50%"],
          [type |-> "target", position |-> "left",   id |-> <<baseId, "left-target">>,   style |-> "top:50%"],
          [type |-> "source", position |-> "right",  id |-> <<baseId, "right-source">>,  style |-> "top:50%"] >>
  ELSE << [type |-> "target", position |-> "left",  id |-> <<baseId, "left-target">>,  style |-> "top:50%"],
          [type |-> "source", position |-> "right", id |-> <<baseId, "right-source">>, style |-> "top:50%"] >>
\* the switch over the shape: the points of the shape, their ids built on baseId
handlesOn(shapeType, baseId) ==
  CASE shapeType = "rectangle" ->
         << [type |-> "target", position |-> "left",  id |-> handleIdOf(baseId, "left-target"),  style |-> "top:50%"],
            [type |-> "source", position |-> "right", id |-> handleIdOf(baseId, "right-source"), style |-> "top:50%"] >>
    [] shapeType = "circle" ->
         << [type |-> "target", position |-> "top",    id |-> handleIdOf(baseId, "top-target"),    style |-> "left:50%"],
            [type |-> "source", position |-> "bottom", id |-> handleIdOf(baseId, "bottom-source"), style |-> "left:50%"],
            [type |-> "target", position |-> "left",   id |-> handleIdOf(baseId, "left-target"),   style |-> "top:50%"],
            [type |-> "source", position |-> "right",  id |-> handleIdOf(baseId, "right-source"),  style |-> "top:50%"] >>
    [] OTHER -> << >>

\* variant of the base id: a generated id whatever the node id is
baseIdOf_Random(nodeId, random) == random
\* nodeId || nanoid(): 0 stands for the falsy node ids ('' and undefined)
baseIdOf(nodeId, random) == IF nodeId # 0 THEN nodeId ELSE random

getDefaultHandlesForShape(shapeType, nodeId) == handlesOn(shapeType, baseIdOf(nodeId, nanoid))

\* `${nodeCat.charAt(0).toUpperCase() + nodeCat.slice(1)}`
Capitalize(shape) ==
  CASE shape = "rectangle" -> "Rectangle"
    [] shape = "circle"    -> "Circle"
    [] shape = "triangle"  -> "Triangle"
    [] OTHER               -> shape

\* A label is a text of space-separated words.  Of the text the model keeps
\* the part before the last word (w), the number parseInt reads at the start
\* of the last word (n, -1 for NaN) and what the last word holds after the
\* digits parseInt read (rest): "Rectangle 3" is ("Rectangle", 3, ""),
\* "Start" is ("Start", -1, ""), "Step 7x" is ("Step", 7, "x").
LabelTail(w, n, rest) == [w |-> w, n |-> n, rest |-> rest]
Label(w, n) == LabelTail(w, n, "")
\* parseInt(oldLabelParts[oldLabelParts.length - 1])
parseIntOfLastWord(label) == label.n

DefaultStyle == [stroke |-> "#2563eb", strokeWidth |-> 2]

(***************************************************************************)
(* Objects.  keys is the insertion order of the own properties of the      *)
(* object; a property that is not in keys is undefined and its field holds *)
(* the value given here.                                                   *)
(***************************************************************************)
NodeObj(keys, id, position, type, data, dragging, width) ==
  [keys |-> keys, id |-> id, position |-> position, type |-> type, data |-> data,
   dragging |-> dragging, width |-> width]

EdgeObj(keys, id, source, target, sourceHandle, targetHandle, type, animated, style) ==
  [keys |-> keys, id |-> id, source |-> source, target |-> target,
   sourceHandle |-> sourceHandle, targetHandle |-> targetHandle,
   type |-> type, animated |-> animated, style |-> style]

SavedNodeKeys == <<"id", "position", "type", "data">>
SavedEdgeKeys == <<"id", "source", "target", "sourceHandle", "targetHandle", "type", "animated", "style">>

\* variant of the projection: the node objects are saved whole
nodesToSave_Whole(nds) == nds
\* nodes.map(node => ({ id, position, type, data: {...} }))
nodesToSave(nds) ==
  [i \in DOMAIN nds |->
     NodeObj(SavedNodeKeys, nds[i].id, nds[i].position, nds[i].type,
             [label |-> nds[i].data.label, nodeCategory |-> nds[i].data.nodeCategory,
              color |-> nds[i].data.color, content |-> nds[i].data.content,
              customHandles |-> nds[i].data.customHandles],
             FALSE, 0)]

\* variant of the projection that leaves the handles of an edge out
edgesToSave_NoHandles(eds) ==
  [i \in DOMAIN eds |->
     EdgeObj(<<"id", "source", "target", "type", "animated", "style">>,
             eds[i].id, eds[i].source, eds[i].target, <<0, "">>, <<0, "">>,
             eds[i].type, eds[i].animated, eds[i].style)]

\* edges.map(edge => ({ id, source, target, sourceHandle, targetHandle, type, animated, style }))
edgesToSave(eds) ==
  [i \in DOMAIN eds |->
     EdgeObj(SavedEdgeKeys, eds[i].id, eds[i].source, eds[i].target,
             eds[i].sourceHandle, eds[i].targetHandle,
             eds[i].type, eds[i].animated, eds[i].style)]

(***************************************************************************)
(* JSON.stringify / JSON.parse: the text of an object lists its own        *)
(* properties in insertion order.                                          *)
(***************************************************************************)
NodeProp(n, k) ==
  CASE k = "id"       -> n.id
    [] k = "position" -> n.position
    [] k = "type"     -> n.type
    [] k = "data"     -> n.data
    [] k = "dragging" -> n.dragging
    [] k = "width"    -> n.width

EdgeProp(e, k) ==
  CASE k = "id"           -> e.id
    [] k = "source"       -> e.source
    [] k = "target"       -> e.target
    [] k = "sourceHandle" -> e.sourceHandle
    [] k = "targetHandle" -> e.targetHandle
    [] k = "type"         -> e.type
    [] k = "animated"     -> e.animated
    [] k = "style"        -> e.style

StringifyNodes(nds) ==
  [i \in DOMAIN nds |->
     [j \in DOMAIN nds[i].keys |-> [k |-> nds[i].keys[j], v |-> NodeProp(nds[i], nds[i].keys[j])]]]

StringifyEdges(eds) ==
  [i \in DOMAIN eds |->
     [j \in DOMAIN eds[i].keys |-> [k |-> eds[i].keys[j], v |-> EdgeProp(eds[i], eds[i].keys[j])]]]

HasKey(t, k) == \E j \in DOMAIN t : t[j].k = k
Get(t, k, undef) == IF HasKey(t, k) THEN t[CHOOSE j \in DOMAIN t : t[j].k = k].v ELSE undef

UndefData == [label |-> Label("", -1), nodeCategory |-> "", color |-> "",
              content |-> "", customHandles |-> << >>]
UndefStyle == [stroke |-> "", strokeWidth |-> 0]
NullHandle == <<0, "">>

ParseNodes(txt) ==
  [i \in DOMAIN txt |->
     NodeObj([j \in DOMAIN txt[i] |-> txt[i][j].k],
             Get(txt[i], "id", 0), Get(txt[i], "position", 0), Get(txt[i], "type", ""),
             Get(txt[i], "data", UndefData), Get(txt[i], "dragging", FALSE), Get(txt[i], "width", 0))]

ParseEdges(txt) ==
  [i \in DOMAIN txt |->
     EdgeObj([j \in DOMAIN txt[i] |-> txt[i][j].k],
             Get(txt[i], "id", 0), Get(txt[i], "source", 0), Get(txt[i], "target", 0),
             Get(txt[i], "sourceHandle", NullHandle), Get(txt[i], "targetHandle", NullHandle),
             Get(txt[i], "type", ""), Get(txt[i], "animated", FALSE),
             Get(txt[i], "style", UndefStyle))]

\* The localStorage item: absent ("null"), a text JSON.parse rejects
\* ("corrupt"), the text of { nodes, edges }, or a text that parses and whose
\* nodes ("badNodes") or edges ("badEdges") member cannot be mapped: a value
\* without map, or a list holding null.
NoItem      == [kind |-> "null",    nodes |-> << >>, edges |-> << >>]
CorruptItem == [kind |-> "corrupt", nodes |-> << >>, edges |-> << >>]
Serialize(nds, eds) ==
  [kind |-> "json", nodes |-> StringifyNodes(nds), edges |-> StringifyEdges(eds)]

(***************************************************************************)
(* Slots a session can find at mount.                                      *)
(***************************************************************************)
HasProp(o, k) == k \in Range(o.keys)
AddKey(keys, k) == IF k \in Range(keys) THEN keys ELSE Append(keys, k)

NewNodeKeys == <<"id", "type", "position", "data">>
NewEdgeKeys == <<"source", "sourceHandle", "target", "targetHandle", "id", "type", "animated", "style">>

NodeData(label, cat, color, content, nodeId) ==
  [label |-> label, nodeCategory |-> cat, color |-> color, content |-> content,
   customHandles |-> getDefaultHandlesForShape(cat, nodeId)]

StoredRect   == NodeObj(NewNodeKeys, 1, 0, "rectangle",
                        NodeData(Label("Rectangle", 1), "rectangle", COLORS[1], "", 1), FALSE, 0)
StoredCircle == NodeObj(NewNodeKeys, 2, 1, "circle",
                        NodeData(Label("Circle", 1), "circle", COLORS[1], "", 2), FALSE, 0)
StoredEdge   == EdgeObj(NewEdgeKeys, 3, 1, 2, <<1, "right-source">>, <<2, "left-target">>,
                        "bezier", TRUE, DefaultStyle)

\* written by the save effect of flow.tsx
SlotCurrent == Serialize(nodesToSave(<<StoredRect, StoredCircle>>), edgesToSave(<<StoredEdge>>))
\* written by the save effect of the earlier variant, which stored
\* { ...node, data } with the measured width and { ...edge, type, style }
SlotOlder ==
  Serialize(<<[StoredRect EXCEPT !.keys = Append(NewNodeKeys, "width"), !.width = 150]>>, << >>)

SlotChoices == {NoItem, CorruptItem, Serialize(<< >>, << >>), SlotCurrent, SlotOlder}

\* written by the save effect of flow.tsx: the edge ends on the top of the circle
StoredTopEdge == EdgeObj(NewEdgeKeys, 3, 1, 2, <<1, "right-source">>, <<2, "top-target">>,
                         "bezier", TRUE, DefaultStyle)
SlotTopEdge == Serialize(nodesToSave(<<StoredRect, StoredCircle>>), edgesToSave(<<StoredTopEdge>>))

\* items the editor did not write: members that cannot be mapped, and a node
\* of a shape the registry does not know, without and with stored handles
SlotBadNodes == [kind |-> "badNodes", nodes |-> << >>,
                 edges |-> StringifyEdges(edgesToSave(<<StoredEdge>>))]
SlotBadEdges == [kind |-> "badEdges", nodes |-> StringifyNodes(nodesToSave(<<StoredRect>>)),
                 edges |-> << >>]
StoredTriangle(handles) ==
  NodeObj(SavedNodeKeys, 1, 0, "triangle",
          [label |-> Label("Triangle", 1), nodeCategory |-> "triangle", color |-> COLORS[1],
           content |-> "", customHandles |-> handles], FALSE, 0)
TriangleHandles ==
  << [type |-> "source", position |-> "bottom", id |-> <<1, "bottom-source">>, style |-> "left:50%"] >>
SlotTriangle == Serialize(<<StoredTriangle(<< >>)>>, << >>)
SlotTriangleHandles == Serialize(<<StoredTriangle(TriangleHandles)>>, << >>)
LoadSlots == {NoItem, CorruptItem, SlotBadNodes, SlotBadEdges,
              SlotTriangle, SlotTriangleHandles, SlotCurrent, SlotOlder}

(***************************************************************************)
(* Load effect (mount)                                                     *)
(***************************************************************************)
LoadNode(node) ==
  LET nodeCategory ==
        IF node.data.nodeCategory \in Shapes THEN node.data.nodeCategory
        ELSE IF node.type \in Shapes THEN node.type ELSE "rectangle"
  IN [node EXCEPT
        !.keys = AddKey(AddKey(node.keys, "type"), "data"),
        !.type = nodeCategory,
        !.data = [node.data EXCEPT
                    !.nodeCategory = nodeCategory,
                    !.customHandles = IF Len(node.data.customHandles) > 0
                                      THEN node.data.customHandles
                                      ELSE getDefaultHandlesForShape(nodeCategory, node.id),
                    !.color = IF node.data.color # "" THEN node.data.color ELSE COLORS[1],
                    !.content = node.data.content]]

LoadEdge(edge) ==
  [edge EXCEPT
     !.keys = AddKey(AddKey(AddKey(edge.keys, "type"), "animated"), "style"),
     !.type = IF edge.type # "" THEN edge.type ELSE "bezier",
     !.animated = IF HasProp(edge, "animated") THEN edge.animated ELSE TRUE,
     !.style = IF HasProp(edge, "style")
               THEN [stroke |-> IF edge.style.stroke # "" THEN edge.style.stroke ELSE "#2563eb",
                     strokeWidth |-> IF edge.style.strokeWidth # 0 THEN edge.style.strokeWidth ELSE 2]
               ELSE DefaultStyle]

\* what the load effect computes from the item: the initial collections and
\* the item it leaves behind
LoadResult(item) ==
  IF item.kind = "json"
  THEN [nodes |-> [i \in DOMAIN item.nodes |-> LoadNode(ParseNodes(item.nodes)[i])],
        edges |-> [i \in DOMAIN item.edges |-> LoadEdge(ParseEdges(item.edges)[i])],
        item  |-> item, caught |-> FALSE]
  ELSE IF item.kind = "badEdges"
  \* initialNodes is assigned before the map of the edges throws
  THEN [nodes |-> [i \in DOMAIN item.nodes |-> LoadNode(ParseNodes(item.nodes)[i])],
        edges |-> << >>, item |-> NoItem, caught |-> TRUE]
  ELSE IF item.kind \in {"corrupt", "badNodes"}
  THEN [nodes |-> << >>, edges |-> << >>, item |-> NoItem, caught |-> TRUE]
  ELSE [nodes |-> << >>, edges |-> << >>, item |-> item, caught |-> FALSE]

(***************************************************************************)
(* Save/history effect                                                     *)
(***************************************************************************)
FlowState(nds, eds) == [nodes |-> nds, edges |-> eds]

\* variants of the comparison: edges are not compared; nothing is a duplicate
isDuplicate_NodesOnly(last, nds, eds) == StringifyNodes(last.nodes) = StringifyNodes(nds)
isDuplicate_Never(last, nds, eds) == FALSE
isDuplicate(last, nds, eds) ==
  /\ StringifyNodes(last.nodes) = StringifyNodes(nds)
  /\ StringifyEdges(last.edges) = StringifyEdges(eds)

\* variant of the slice: the entries beyond the cursor are kept
baseHistoryOf_NoSlice(hist, step) == hist
\* history.slice(0, currentStep + 1)
baseHistoryOf(hist, step) == SubSeq(hist, 1, step + 1)

\* variant of the new cursor: one past the appended entry
newStepOf_OffByOne(baseHistory) == Len(baseHistory) + 1
\* setCurrentStep(baseHistory.length)
newStepOf(baseHistory) == Len(baseHistory)

\* The effect run of a render whose state is nds, eds, hist, step: the item
\* it writes and the history and cursor after the updates it queues.
\* variant of the write: a graph equal to the last entry is not written
writtenItem_UnlessDuplicate(dup, item, entry) ==
  IF dup THEN item ELSE Serialize(entry.nodes, entry.edges)
\* localStorage.setItem('flow', JSON.stringify({ nodes: nodesToSave, edges: edgesToSave }))
writtenItem(dup, item, entry) == Serialize(entry.nodes, entry.edges)

SaveEffect(done, nds, eds, hist, step, item) ==
  IF ~done
  THEN [history |-> hist, currentStep |-> step, storage |-> item, appended |-> FALSE]
  ELSE LET baseHistory == baseHistoryOf(hist, step)
           newHistoryEntry == FlowState(nodesToSave(nds), edgesToSave(eds))
           dup == /\ Len(baseHistory) > 0
                  /\ isDuplicate(baseHistory[Len(baseHistory)], newHistoryEntry.nodes, newHistoryEntry.edges)
       IN [history     |-> IF dup THEN hist ELSE Append(baseHistory, newHistoryEntry),
           currentStep |-> IF dup THEN step ELSE newStepOf(baseHistory),
           storage     |-> writtenItem(dup, item, newHistoryEntry),
           appended    |-> ~dup]

NodeById(nds, id) == nds[CHOOSE i \in DOMAIN nds : nds[i].id = id]

\* the Editor component after its first render, before its effect has run:
\* editorRef = useRef<EditorJS>() is undefined (0), no initEditor call is
\* awaiting its imports, no EditorJS instance exists
EditorRendered ==
  [phase |-> "rendered", editorRef |-> 0, awaiting |-> 0, inits |-> 0,
   created |-> 0, instances |-> {}]

\* the upload route with no request in hand and an empty media folder
UploadIdle ==
  [pc |-> "idle", session |-> "pending", image |-> "none", formRead |-> FALSE,
   started |-> FALSE, failed |-> FALSE, status |-> 0, success |-> FALSE, hosted |-> 0]

\* the component before its first effects run, over the item slot holds
Unmounted(slot) ==
  /\ pc = "init"
  /\ nodes = << >>
  /\ edges = << >>
  /\ history = <<FlowState(<< >>, << >>)>>
  /\ currentStep = 0
  /\ isInitialLoadDone = FALSE
  /\ storage = slot
  /\ pending = FlowState(<< >>, << >>)
  /\ selectedNode = 0
  /\ dragNode = 0
  /\ dragAppends = 0
  /\ loadedRefs = {}
  /\ listeners = << >>
  /\ editor = EditorRendered
  /\ upload = UploadIdle

\* window.addEventListener for the three kinds, with the handlers of a render
subscribe(ls, selected) == Append(ls, [selectedNode |-> selected])
\* variant of the cleanup: the listeners stay registered
unsubscribe_Leaves(ls) == ls
\* the cleanup of the latest run of the effect: window.removeEventListener
\* for the handlers that run added
unsubscribe(ls) == IF ls = << >> THEN ls ELSE SubSeq(ls, 1, Len(ls) - 1)
\* the effect with the dependencies [setNodes, setEdges, selectedNode, nodes]
\* in the effect run of a render: cleanup and setup when a dependency changed
listenerEffect ==
  listeners' = IF nodes' # nodes \/ selectedNode' # selectedNode
               THEN subscribe(unsubscribe(listeners), selectedNode')
               ELSE listeners

Init == \E slot \in SlotChoices : Unmounted(slot)

\* useEffect(() => { ... }, []) : reads the slot, queues setNodes, setEdges,
\* setHistory, setCurrentStep and sets the ref
LoadEffect ==
  /\ pc = "init"
  /\ LET r == LoadResult(storage)
     IN /\ pending' = FlowState(r.nodes, r.edges)
        /\ storage' = r.item
  /\ isInitialLoadDone' = TRUE
  /\ pc' = "loaded"
  /\ UNCHANGED <<nodes, edges, history, currentStep, selectedNode, dragNode, dragAppends, loadedRefs>>
  /\ UNCHANGED listeners
  /\ UNCHANGED <<editor, upload>>

\* the save/history effect of the first render, run after the load effect
\* with the state of that render
MountSaveEffect ==
  /\ pc = "loaded"
  /\ LET r == SaveEffect(isInitialLoadDone, nodes, edges, history, currentStep, storage)
     IN /\ history' = r.history
        /\ currentStep' = r.currentStep
        /\ storage' = r.storage
  /\ pc' = "saved0"
  /\ UNCHANGED <<nodes, edges, isInitialLoadDone, pending, selectedNode, dragNode, dragAppends, loadedRefs>>
  /\ listeners' = subscribe(listeners, selectedNode)
  /\ UNCHANGED <<editor, upload>>

\* variant of the load effect: the history keeps the entry it was created with
initialHistory_Kept(initialNodes, initialEdges) == <<FlowState(<< >>, << >>)>>
\* setHistory([initialState]) with initialState = { nodes: initialNodes, edges: initialEdges }
initialHistory(initialNodes, initialEdges) == <<FlowState(initialNodes, initialEdges)>>

\* the render that commits the updates of the load effect, and its effect run
HydrateCommit ==
  /\ pc = "saved0"
  /\ LET r == SaveEffect(isInitialLoadDone, pending.nodes, pending.edges,
                         initialHistory(pending.nodes, pending.edges), 0, storage)
     IN /\ nodes' = pending.nodes
        /\ edges' = pending.edges
        /\ history' = r.history
        /\ currentStep' = r.currentStep
        /\ storage' = r.storage
  /\ pc' = "ready"
  /\ loadedRefs' = NodeIds(pending.nodes)
  /\ UNCHANGED <<isInitialLoadDone, pending, selectedNode, dragNode, dragAppends>>
  /\ listeners' = subscribe(unsubscribe(listeners), selectedNode)
  /\ UNCHANGED <<editor, upload>>

(***************************************************************************)
(* Handlers of the mounted editor.  Commit is the render that follows a    *)
(* handler whose updates changed nodes or edges, with the effect run of    *)
(* that render; step is the cursor the handler queued.                     *)
(***************************************************************************)
CommitOn(hist, nds, eds, step) ==
  LET r == SaveEffect(isInitialLoadDone, nds, eds, hist, step, storage)
  IN /\ nodes' = nds
     /\ edges' = eds
     /\ history' = r.history
     /\ currentStep' = r.currentStep
     /\ storage' = r.storage

Commit(nds, eds, step) == CommitOn(history, nds, eds, step)

\* The same render when localStorage.setItem throws (QuotaExceededError): the
\* effect run ends at that line, nothing is written and neither setHistory
\* nor setCurrentStep is called; the error leaves the effect and React takes
\* the component down.
CommitWriteFails(nds, eds, step) ==
  /\ isInitialLoadDone
  /\ nodes' = nds
  /\ edges' = eds
  /\ currentStep' = step
  /\ pc' = "error"
  /\ UNCHANGED <<history, storage>>

Appends(nds, eds, step) ==
  SaveEffect(isInitialLoadDone, nds, eds, history, step, storage).appended

HandleIds(node, type) ==
  {node.data.customHandles[i].id :
     i \in {j \in DOMAIN node.data.customHandles : node.data.customHandles[j].type = type}}

\* the history has room for the entry an intent may append: a session adds and
\* edits while the cursor is two entries short of MaxHist, and moves, deletes
\* and clears while it is one entry short
CanEdit   == currentStep + 3 <= MaxHist
CanRecord == currentStep + 2 <= MaxHist

UserLabels   == {Label("Start", -1)}
CreatePositions == {0}
Palette      == {COLORS[i] : i \in 1..NumColors}

\* variant of the count: every live node counts, whatever its category
countOfCategory_All(nds, nodeCat) == Len(nds) + 1
\* nodes.filter(n => n.data.nodeCategory === nodeCat).length + 1
countOfCategory(nds, nodeCat) ==
  Cardinality({i \in DOMAIN nds : nds[i].data.nodeCategory = nodeCat}) + 1

newNodeOf(nds, id, nodeCat, position, color) ==
  NodeObj(NewNodeKeys, id, position, nodeCat,
          NodeData(Label(Capitalize(nodeCat), countOfCategory(nds, nodeCat)), nodeCat, color, "", id),
          FALSE, 0)

\* the callback of a render: it reads the nodes of that render and appends
\* to the live collection
createNode(nodeCat, position, color) ==
  /\ pc = "ready" /\ dragNode = 0
  /\ LET nds == Append(nodes, newNodeOf(nodes, nanoid, nodeCat, position, color))
     IN Commit(nds, edges, currentStep)
  /\ UNCHANGED <<pc, isInitialLoadDone, pending, selectedNode, dragNode, dragAppends, loadedRefs>>
  /\ listenerEffect
  /\ UNCHANGED <<editor, upload>>

createNewNode(nodeCat, position, color) ==
  /\ CanEdit /\ Len(nodes) < MaxNodes
  /\ createNode(nodeCat, position, color)

\* variant of the filter: the test is the other way round
withoutNode_KeepsOnly(nds, nodeId) == SelectSeq(nds, LAMBDA n : n.id = nodeId)
\* nds.filter(node => node.id !== nodeId)
withoutNode(nds, nodeId) == SelectSeq(nds, LAMBDA node : node.id # nodeId)
\* variants of the edge filter: only the edges leaving the node go; no edge goes
withoutEdgesOf_SourceOnly(eds, nodeId) == SelectSeq(eds, LAMBDA edge : edge.source # nodeId)
withoutEdgesOf_None(eds, nodeId) == eds
\* eds.filter(edge => edge.source !== nodeId && edge.target !== nodeId)
withoutEdgesOf(eds, nodeId) ==
  SelectSeq(eds, LAMBDA edge : edge.source # nodeId /\ edge.target # nodeId)

deleteNode(nodeId) ==
  /\ pc = "ready"
  /\ nodeId # 0 /\ listeners # << >>
  /\ Commit(withoutNode(nodes, nodeId), withoutEdgesOf(edges, nodeId), currentStep)
  \* if (selectedNode?.id === nodeId) setSelectedNode(null), on the selectedNode of the closure
  /\ selectedNode' = IF listeners[Len(listeners)].selectedNode = nodeId THEN 0 ELSE selectedNode
  /\ loadedRefs' = loadedRefs \ {nodeId}
  /\ UNCHANGED <<pc, isInitialLoadDone, pending, dragNode, dragAppends>>
  /\ listenerEffect
  /\ UNCHANGED <<editor, upload>>

handleDeleteNode(nodeId) == CanRecord /\ deleteNode(nodeId)

\* variant of the shape change: the handles the node has are kept
newHandlesOf_Kept(n, newType) == n.data.customHandles
\* const newHandles = getDefaultHandlesForShape(newType, n.id)
newHandlesOf(n, newType) == getDefaultHandlesForShape(newType, n.id)

\* the handler of 'changeNodeType', whatever room the history has
\* nds.map(n => n.id === nodeId ? { ...n, type: newType, data: {...} } : n)
withNodeType(nds, nodeId, newType) ==
  [i \in DOMAIN nds |->
     IF nds[i].id = nodeId
     THEN LET n == nds[i]
              currentCountForNewType ==
                Cardinality({j \in DOMAIN nds :
                               nds[j].id # nodeId /\ nds[j].data.nodeCategory = newType})
              oldNumber == parseIntOfLastWord(n.data.label)
              newLabelNumber == IF oldNumber = -1 THEN currentCountForNewType + 1 ELSE oldNumber
          IN [n EXCEPT
                !.type = newType,
                !.data = [n.data EXCEPT
                            !.label = Label(Capitalize(newType), newLabelNumber),
                            !.nodeCategory = newType,
                            !.customHandles = newHandlesOf(n, newType)]]
     ELSE nds[i]]

changeNodeType(nodeId, newType) ==
  /\ pc = "ready" /\ dragNode = 0
  /\ LET nds == withNodeType(nodes, nodeId, newType)
     IN Commit(nds, edges, currentStep)
  /\ loadedRefs' = loadedRefs \ {nodeId}
  /\ UNCHANGED <<pc, isInitialLoadDone, pending, selectedNode, dragNode, dragAppends>>
  /\ listenerEffect
  /\ UNCHANGED <<editor, upload>>

handleChangeNodeType(nodeId, newType) ==
  /\ CanEdit
  /\ changeNodeType(nodeId, newType)

\* variant of the update: the fields are written into the data object the
\* node holds, which history[0] holds too while the node is the loaded object
storedAfterUpdate_InPlace(hist, nodeId, field, value) ==
  IF nodeId \in loadedRefs
  THEN LET loaded == hist[1].nodes
           written == [i \in DOMAIN loaded |->
                         IF loaded[i].id = nodeId
                         THEN [loaded[i] EXCEPT !.data = [loaded[i].data EXCEPT ![field] = value]]
                         ELSE loaded[i]]
       IN [hist EXCEPT ![1] = FlowState(written, hist[1].edges)]
  ELSE hist

\* return { ...n, data: { ...n.data, ...newData } }: the update builds a new
\* node and a new data object, the objects the entries hold are not written
storedAfterUpdate(hist, nodeId, field, value) == hist

\* variant of the merge: the data is replaced by newData, { ...newData }
withNewData_Replace(data, field, value) == [UndefData EXCEPT ![field] = value]
\* { ...n.data, ...newData } where newData is { [field]: value }
withNewData(data, field, value) == [data EXCEPT ![field] = value]

\* the handler of 'updateNodeData', whatever room the history has
\* variant of the map: the id is not tested, every node gets the update
withNodeData_Every(nds, nodeId, field, value) ==
  [i \in DOMAIN nds |-> [nds[i] EXCEPT !.data = withNewData(nds[i].data, field, value)]]
withNodeData(nds, nodeId, field, value) ==
  [i \in DOMAIN nds |->
     IF nds[i].id = nodeId
     THEN [nds[i] EXCEPT !.data = withNewData(nds[i].data, field, value)]
     ELSE nds[i]]

updateNodeData(nodeId, field, value) ==
  /\ pc = "ready" /\ dragNode = 0
  /\ LET nds == withNodeData(nodes, nodeId, field, value)
     IN CommitOn(storedAfterUpdate(history, nodeId, field, value), nds, edges, currentStep)
  /\ loadedRefs' = loadedRefs \ {nodeId}
  /\ UNCHANGED <<pc, isInitialLoadDone, pending, selectedNode, dragNode, dragAppends>>
  /\ listenerEffect
  /\ UNCHANGED <<editor, upload>>

handleUpdateNodeData(nodeId, field, value) ==
  /\ CanEdit
  /\ updateNodeData(nodeId, field, value)

\* onNodesChange with a position change of a drag in progress
positionChange(nodeId, position) ==
  /\ pc = "ready" /\ dragNode \in {0, nodeId}
  /\ LET nds == [i \in DOMAIN nodes |->
                   IF nodes[i].id = nodeId
                   THEN [nodes[i] EXCEPT !.keys = AddKey(nodes[i].keys, "dragging"),
                                         !.position = position, !.dragging = TRUE]
                   ELSE nodes[i]]
     IN /\ Commit(nds, edges, currentStep)
        /\ dragAppends' = LET n == (IF dragNode = 0 THEN 0 ELSE dragAppends)
                                      + (IF Appends(nds, edges, currentStep) THEN 1 ELSE 0)
                           IN IF n > 2 THEN 2 ELSE n
  /\ dragNode' = nodeId
  /\ loadedRefs' = loadedRefs \ {nodeId}
  /\ UNCHANGED <<pc, isInitialLoadDone, pending, selectedNode>>
  /\ listenerEffect
  /\ UNCHANGED <<editor, upload>>

moveNode(nodeId, position) == CanRecord /\ positionChange(nodeId, position)

\* onNodesChange with the change { dragging: false } that ends the drag
dragStop ==
  /\ pc = "ready" /\ dragNode # 0
  /\ LET nds == [i \in DOMAIN nodes |->
                   IF nodes[i].id = dragNode
                   THEN [nodes[i] EXCEPT !.keys = AddKey(nodes[i].keys, "dragging"), !.dragging = FALSE]
                   ELSE nodes[i]]
     IN Commit(nds, edges, currentStep)
  /\ dragNode' = 0
  /\ dragAppends' = 0
  /\ loadedRefs' = loadedRefs \ {dragNode}
  /\ UNCHANGED <<pc, isInitialLoadDone, pending, selectedNode>>
  /\ listenerEffect
  /\ UNCHANGED <<editor, upload>>

\* reactflow addEdge: a connection that exists already is not added
connectionExists(edge, eds) ==
  \E i \in DOMAIN eds :
     /\ eds[i].source = edge.source /\ eds[i].target = edge.target
     /\ eds[i].sourceHandle = edge.sourceHandle
     /\ eds[i].targetHandle = edge.targetHandle

addEdge(edge, eds) == IF connectionExists(edge, eds) THEN eds ELSE Append(eds, edge)

\* the edge onConnect makes of the params of a connection
newEdgeOf(source, sourceHandle, target, targetHandle) ==
  EdgeObj(NewEdgeKeys, nanoid, source, target, sourceHandle, targetHandle,
          "bezier", TRUE, DefaultStyle)

connect(source, sourceHandle, target, targetHandle) ==
  /\ pc = "ready" /\ dragNode = 0
  /\ LET newEdge == newEdgeOf(source, sourceHandle, target, targetHandle)
         eds == addEdge(newEdge, edges)
     IN IF eds = edges
        THEN UNCHANGED <<nodes, edges, history, currentStep, storage>>
        ELSE Commit(nodes, eds, currentStep)
  /\ UNCHANGED <<pc, isInitialLoadDone, pending, selectedNode, dragNode, dragAppends, loadedRefs>>
  /\ listenerEffect
  /\ UNCHANGED <<editor, upload>>

onConnect(source, sourceHandle, target, targetHandle) ==
  CanEdit /\ connect(source, sourceHandle, target, targetHandle)

\* the state the session holds between two intents
Session(nds, eds, hist, step, item) ==
  [nodes |-> nds, edges |-> eds, history |-> hist, currentStep |-> step, storage |-> item]
Current == Session(nodes, edges, history, currentStep, storage)

\* the render that commits nds, eds and the cursor step onto the session st,
\* with its effect run
Rendered(st, nds, eds, step) ==
  LET r == SaveEffect(isInitialLoadDone, nds, eds, st.history, step, st.storage)
  IN Session(nds, eds, r.history, r.currentStep, r.storage)

Becomes(st) ==
  /\ nodes' = st.nodes
  /\ edges' = st.edges
  /\ history' = st.history
  /\ currentStep' = st.currentStep
  /\ storage' = st.storage

\* variant of clearAll: setEdges([]) is missing
clearedOf_NodesOnly(st) == Rendered(st, << >>, st.edges, st.currentStep)
\* setNodes([]); setEdges([]): one render with both collections empty
clearedOf(st) == Rendered(st, << >>, << >>, st.currentStep)

clearAll ==
  /\ pc = "ready" /\ dragNode = 0
  /\ CanRecord
  /\ Becomes(clearedOf(Current))
  /\ loadedRefs' = {}
  /\ UNCHANGED <<pc, isInitialLoadDone, pending, selectedNode, dragNode, dragAppends>>
  /\ listenerEffect
  /\ UNCHANGED <<editor, upload>>

\* variant of undo: the step is clamped at 0 instead of guarded
undoOf_Clamped(st) ==
  LET newStep == IF st.currentStep > 0 THEN st.currentStep - 1 ELSE 0
      prevState == st.history[newStep + 1]
  IN Rendered(st, prevState.nodes, prevState.edges, newStep)

\* prevState.nodes.map(n => ({...n, data: {...n.data}})), prevState.edges.map(e => ({...e}))
undoOf(st) ==
  IF st.currentStep > 0
  THEN LET newStep == st.currentStep - 1
           prevState == st.history[newStep + 1]
       IN Rendered(st, prevState.nodes, prevState.edges, newStep)
  ELSE st

\* variant of redo: the cursor moves, the nodes are not restored
redoOf_StaleNodes(st) ==
  IF st.currentStep < Len(st.history) - 1
  THEN LET newStep == st.currentStep + 1
           nextState == st.history[newStep + 1]
       IN Rendered(st, st.nodes, nextState.edges, newStep)
  ELSE st

redoOf(st) ==
  IF st.currentStep < Len(st.history) - 1
  THEN LET newStep == st.currentStep + 1
           nextState == st.history[newStep + 1]
       IN Rendered(st, nextState.nodes, nextState.edges, newStep)
  ELSE st

undo ==
  /\ pc = "ready"
  /\ Becomes(undoOf(Current))
  /\ loadedRefs' = IF currentStep > 0 THEN {} ELSE loadedRefs
  /\ UNCHANGED <<pc, isInitialLoadDone, pending, selectedNode, dragNode, dragAppends>>
  /\ listenerEffect
  /\ UNCHANGED <<editor, upload>>

redo ==
  /\ pc = "ready"
  /\ Becomes(redoOf(Current))
  /\ loadedRefs' = IF currentStep < Len(history) - 1 THEN {} ELSE loadedRefs
  /\ UNCHANGED <<pc, isInitialLoadDone, pending, selectedNode, dragNode, dragAppends>>
  /\ listenerEffect
  /\ UNCHANGED <<editor, upload>>

(***************************************************************************)
(* The user's intents: what the rendered controls can dispatch             *)
(***************************************************************************)
CreateNode == \E nodeCat \in Shapes, position \in CreatePositions, color \in Palette :
                createNewNode(nodeCat, position, color)
\* the delete button of a rendered node
DeleteNode == \E id \in NodeIds(nodes) : dragNode = 0 /\ handleDeleteNode(id)
ChangeShape == \E id \in NodeIds(nodes), newType \in Shapes :
                 /\ NodeById(nodes, id).data.nodeCategory # newType
                 /\ handleChangeNodeType(id, newType)
\* the label input of a rendered node (blur, Enter) and its colour picker
UpdateLabel == \E id \in NodeIds(nodes), l \in UserLabels : handleUpdateNodeData(id, "label", l)
UpdateColor == \E id \in NodeIds(nodes), c \in Palette : handleUpdateNodeData(id, "color", c)
MoveNode == \E id \in NodeIds(nodes), position \in Positions :
              /\ NodeById(nodes, id).position # position
              /\ moveNode(id, position)
DragStop == dragStop
\* a connect gesture of the render layer, from a source handle of one
\* rendered node to a target handle of another
Connect == \E s \in NodeIds(nodes), t \in NodeIds(nodes) :
             \E sh \in HandleIds(NodeById(nodes, s), "source"), th \in HandleIds(NodeById(nodes, t), "target") :
                s # t /\ onConnect(s, sh, t, th)
ClearAll == clearAll
Undo == undo
Redo == redo

Next ==
  \/ LoadEffect \/ MountSaveEffect \/ HydrateCommit
  \/ CreateNode \/ DeleteNode \/ ChangeShape
  \/ UpdateLabel \/ UpdateColor
  \/ MoveNode \/ DragStop \/ Connect \/ ClearAll
  \/ Undo \/ Redo

Spec == Init /\ [][Next]_vars

(***************************************************************************)
(* A session of renames: the editor is mounted on an empty slot, a node is *)
(* added and its label is edited several times, with undo and redo in      *)
(* between.                                                                *)
(***************************************************************************)
RenameLabels == {Label("Start", -1), Label("Step", 2), Label("End", -1)}
\* the history has room for the entries of the renames
CanRename == currentStep <= MaxHist

InitRename ==
  /\ Init
  /\ storage = NoItem

\* the label input of a rendered node: blur or Enter with the text typed
Rename == \E id \in NodeIds(nodes), l \in RenameLabels :
            CanRename /\ updateNodeData(id, "label", l)

\* the session works on one node: it is added while the canvas is empty
AddFirstNode == nodes = << >> /\ CreateNode

NextRename ==
  \/ LoadEffect \/ MountSaveEffect \/ HydrateCommit
  \/ AddFirstNode \/ Rename
  \/ Undo \/ Redo

SpecRename == InitRename /\ [][NextRename]_vars

(***************************************************************************)
(* A session mounted on any item, the ones the editor did not write        *)
(* included, and edited afterwards.                                        *)
(***************************************************************************)
InitLoad == \E slot \in LoadSlots : Unmounted(slot)

NextLoad ==
  \/ LoadEffect \/ MountSaveEffect \/ HydrateCommit
  \/ DeleteNode \/ ChangeShape \/ UpdateLabel
  \/ Undo \/ Redo

SpecLoad == InitLoad /\ [][NextLoad]_vars

(***************************************************************************)
(* A session of renames in which a write of the item can fail.             *)
(***************************************************************************)
\* a rename whose render finds the storage full
RenameWriteFails ==
  \E id \in NodeIds(nodes), l \in RenameLabels :
    /\ pc = "ready" /\ dragNode = 0
    /\ CanRename
    /\ CommitWriteFails(withNodeData(nodes, id, "label", l), edges, currentStep)
    /\ loadedRefs' = loadedRefs \ {id}
    /\ UNCHANGED <<isInitialLoadDone, pending, selectedNode, dragNode, dragAppends>>
    /\ listeners' = unsubscribe(listeners)
    /\ UNCHANGED <<editor, upload>>

NextWriteFails ==
  \/ LoadEffect \/ MountSaveEffect \/ HydrateCommit
  \/ AddFirstNode \/ Rename \/ RenameWriteFails
  \/ Undo \/ Redo

SpecWriteFails == InitRename /\ [][NextWriteFails]_vars

(***************************************************************************)
(* A session with selection: a click selects a node, the Delete key        *)
(* dispatches deleteNode for the selected node, which undo, redo or        *)
(* clearAll may have taken off the canvas in between.                      *)
(***************************************************************************)
onNodeClick(id) ==
  /\ pc = "ready" /\ dragNode = 0
  /\ selectedNode # id
  /\ selectedNode' = id
  /\ UNCHANGED <<pc, nodes, edges, history, currentStep, isInitialLoadDone, storage,
                 pending, dragNode, dragAppends, loadedRefs>>
  /\ listenerEffect
  /\ UNCHANGED <<editor, upload>>

onPaneClick ==
  /\ pc = "ready" /\ dragNode = 0
  /\ selectedNode # 0
  /\ selectedNode' = 0
  /\ UNCHANGED <<pc, nodes, edges, history, currentStep, isInitialLoadDone, storage,
                 pending, dragNode, dragAppends, loadedRefs>>
  /\ listenerEffect
  /\ UNCHANGED <<editor, upload>>

NodeClick == \E id \in NodeIds(nodes) : onNodeClick(id)
\* event.key === 'Delete' && selectedNode
DeleteKey == selectedNode # 0 /\ dragNode = 0 /\ handleDeleteNode(selectedNode)

NextSelect ==
  \/ LoadEffect \/ MountSaveEffect \/ HydrateCommit
  \/ CreateNode \/ NodeClick \/ onPaneClick
  \/ DeleteNode \/ DeleteKey \/ ClearAll
  \/ Undo \/ Redo

SpecSelect == Init /\ [][NextSelect]_vars

(***************************************************************************)
(* A session on a stored graph of a rectangle and a circle joined by an    *)
(* edge: shapes are changed, nodes are joined and deleted, with undo and   *)
(* redo.                                                                   *)
(***************************************************************************)
InitShapes == \E slot \in {SlotCurrent, SlotTopEdge} : Unmounted(slot)

NextShapes ==
  \/ LoadEffect \/ MountSaveEffect \/ HydrateCommit
  \/ ChangeShape \/ Connect \/ DeleteNode
  \/ Undo \/ Redo

SpecShapes == InitShapes /\ [][NextShapes]_vars

(***************************************************************************)
(* The same session with connection gestures that last: the gesture keeps  *)
(* the handle it started on while Ctrl+Z, Ctrl+Shift+Z or a shape change   *)
(* replaces the handles of its node, and onConnect gets that handle.       *)
(***************************************************************************)
\* the handles a gesture can have started on: those the node has, and those
\* it had in the entries undo and redo have moved away from since
GestureHandles(id) ==
  UNION {{h.id : h \in Range(NodeById(nds, id).data.customHandles)} :
           nds \in {n \in {history[k].nodes : k \in DOMAIN history} \cup {nodes} :
                      id \in NodeIds(n)}}

\* the gesture ends on a rendered handle of another node
ConnectGesture ==
  \E s \in NodeIds(nodes), t \in NodeIds(nodes) :
    \E sh \in GestureHandles(s), th \in HandleIds(NodeById(nodes, t), "target") :
       s # t /\ onConnect(s, sh, t, th)

NextGesture ==
  \/ LoadEffect \/ MountSaveEffect \/ HydrateCommit
  \/ ChangeShape \/ ConnectGesture
  \/ Undo \/ Redo

SpecGesture == InitShapes /\ [][NextGesture]_vars

(***************************************************************************)
(* A session on the stored graph of a rectangle and a circle in which      *)
(* labels are typed and shapes are changed.                                *)
(***************************************************************************)
\* "Start", "Step 7x", "Stage 3"
TypedLabels == {Label("Start", -1), LabelTail("Step", 7, "x"), Label("Stage", 3)}

InitRelabel == Unmounted(SlotCurrent)

Relabel == \E id \in NodeIds(nodes), l \in TypedLabels :
             CanRecord /\ updateNodeData(id, "label", l)

\* the shape control of a rendered node
Reshape == \E id \in NodeIds(nodes), newType \in Shapes :
             /\ CanRecord
             /\ NodeById(nodes, id).data.nodeCategory # newType
             /\ changeNodeType(id, newType)

NextRelabel ==
  \/ LoadEffect \/ MountSaveEffect \/ HydrateCommit
  \/ Relabel \/ Reshape
  \/ Undo \/ Redo

SpecRelabel == InitRelabel /\ [][NextRelabel]_vars

(***************************************************************************)
(* A session in which events for nodes that are no longer on the canvas    *)
(* arrive on the window: any code can dispatch 'changeNodeType' and        *)
(* 'updateNodeData' with the id of a node that undo, redo, a delete or     *)
(* clearAll has taken away.                                                *)
(***************************************************************************)
\* the ids of the nodes the history knows and the canvas does not have
GoneIds == UNION {NodeIds(history[k].nodes) : k \in DOMAIN history} \ NodeIds(nodes)

StaleChangeNodeType ==
  \E id \in GoneIds, newType \in Shapes : CanRecord /\ changeNodeType(id, newType)
StaleUpdateNodeData ==
  \E id \in GoneIds :
    \/ \E l \in UserLabels : CanRecord /\ updateNodeData(id, "label", l)
    \/ \E c \in Palette : CanRecord /\ updateNodeData(id, "color", c)

\* the content area of a rendered node, on blur
UpdateContent == \E id \in NodeIds(nodes) : handleUpdateNodeData(id, "content", "note")

NextStale ==
  \/ LoadEffect \/ MountSaveEffect \/ HydrateCommit
  \/ CreateNode \/ DeleteNode \/ ClearAll
  \/ ChangeShape \/ UpdateLabel \/ UpdateColor \/ UpdateContent
  \/ StaleChangeNodeType \/ StaleUpdateNodeData
  \/ Undo \/ Redo

SpecStale == Init /\ [][NextStale]_vars

\* The context menu on a canvas that already holds nodes: the stored rectangle
\* and circle, or nothing.
CreateRoom == MaxNodes + 2
InitCreate == \E slot \in {NoItem, SlotCurrent} : Unmounted(slot)

CreateMore == \E nodeCat \in Shapes, position \in CreatePositions, color \in Palette :
                /\ CanRecord /\ Len(nodes) < CreateRoom
                /\ createNode(nodeCat, position, color)

NextCreate ==
  \/ LoadEffect \/ MountSaveEffect \/ HydrateCommit
  \/ CreateMore \/ DeleteNode
  \/ Undo \/ Redo

SpecCreate == InitCreate /\ [][NextCreate]_vars

\* A session on an empty canvas that adds a node of each shape, in the order
\* of the menu, and works on them: it drags them to the far position, renames, reshapes,
\* connects and deletes them.
CanAct == currentStep < MaxHist
SessionRoom == Len(AVAILABLE_SHAPES)

SessionCreate == \E position \in CreatePositions :
                   /\ CanAct /\ Len(nodes) < SessionRoom
                   /\ createNode(AVAILABLE_SHAPES[Len(nodes) + 1], position, COLORS[1])
\* the canvas holds the nodes the session works on
Full == Len(nodes) = SessionRoom
SessionMove == \E id \in NodeIds(nodes) :
                 /\ CanAct /\ Full /\ NodeById(nodes, id).position # MaxPos
                 /\ positionChange(id, MaxPos)
SessionUpdate == \E id \in NodeIds(nodes), l \in UserLabels :
                   CanAct /\ Full /\ updateNodeData(id, "label", l)
SessionChangeShape == \E id \in NodeIds(nodes), newType \in Shapes :
                        /\ CanAct /\ Full /\ NodeById(nodes, id).data.nodeCategory # newType
                        /\ changeNodeType(id, newType)
SessionConnect == \E s \in NodeIds(nodes), t \in NodeIds(nodes) :
                    \E sh \in HandleIds(NodeById(nodes, s), "source"),
                       th \in HandleIds(NodeById(nodes, t), "target") :
                      CanAct /\ s # t /\ connect(s, sh, t, th)
SessionDelete == \E id \in NodeIds(nodes) : CanAct /\ Full /\ dragNode = 0 /\ deleteNode(id)

NextSession ==
  \/ LoadEffect \/ MountSaveEffect \/ HydrateCommit
  \/ SessionCreate \/ SessionMove \/ DragStop
  \/ SessionUpdate \/ SessionChangeShape \/ SessionConnect \/ SessionDelete
  \/ Undo \/ Redo

SpecSession == InitRename /\ [][NextSession]_vars

\* The registry on the nodes of a stored graph that holds no connection
\* points: the load effect asks it for the points of every node, and every
\* shape change asks it again.  Two of the items hold a node without an id.
StoredBare(id, cat) ==
  NodeObj(SavedNodeKeys, id, 0, cat,
          [label |-> Label(Capitalize(cat), 1), nodeCategory |-> cat, color |-> COLORS[1],
           content |-> "", customHandles |-> << >>], FALSE, 0)
SlotBare == Serialize(<<StoredBare(1, "rectangle"), StoredBare(2, "circle")>>, << >>)
\* one node of either shape, with the id 1 or without an id
BareSlots == {Serialize(<<StoredBare(id, cat)>>, << >>) : id \in 0..1, cat \in Shapes}
InitDefaults == \E slot \in BareSlots \cup {SlotBare} : Unmounted(slot)

\* the shape menu of a node; a message without a node id is dropped
DefaultsReshape == \E id \in NodeIds(nodes) \ {0}, newType \in Shapes :
                     /\ CanAct /\ NodeById(nodes, id).data.nodeCategory # newType
                     /\ changeNodeType(id, newType)

NextDefaults ==
  \/ LoadEffect \/ MountSaveEffect \/ HydrateCommit
  \/ DefaultsReshape \/ DeleteNode
  \/ Undo \/ Redo

SpecDefaults == InitDefaults /\ [][NextDefaults]_vars

\* A 'changeNodeType' message whose newType is no shape of the registry: the
\* type is not checked at run time, the handler asks the registry for the
\* points of whatever the message names.
ForeignShapes == {"triangle"}
ForeignChangeShape == \E id \in NodeIds(nodes), newType \in ForeignShapes :
                        /\ CanRecord /\ NodeById(nodes, id).data.nodeCategory # newType
                        /\ changeNodeType(id, newType)

NextForeign ==
  \/ LoadEffect \/ MountSaveEffect \/ HydrateCommit
  \/ ForeignChangeShape \/ ChangeShape \/ DeleteNode
  \/ Undo \/ Redo

SpecForeign == InitShapes /\ [][NextForeign]_vars

\* The messages of the node controls on the window, with the clicks that
\* change the selection between them.  window.dispatchEvent hands a message
\* to the listeners registered at that moment, in the order they were added;
\* a message that finds none has no effect and is not kept.
MessageWithoutListener == listeners = << >> /\ UNCHANGED vars

NextBus ==
  \/ LoadEffect \/ MountSaveEffect \/ HydrateCommit
  \/ MessageWithoutListener
  \/ NodeClick \/ onPaneClick
  \/ DeleteNode \/ DeleteKey \/ ChangeShape \/ UpdateLabel \/ UpdateColor
  \/ Undo \/ Redo

SpecBus == Init /\ [][NextBus]_vars

(***************************************************************************)
(* A session in which the render layer reports what it measured: after a   *)
(* node is drawn onNodesChange stores its width on the node object, and a  *)
(* drag sets and resets its dragging flag.  Neither property is part of    *)
(* the saved projection.                                                   *)
(***************************************************************************)
Widths == {150, 160}

\* applyNodeChanges with a dimensions change: a copy of the node with the width
measuredOf(nds, nodeId, width) ==
  [i \in DOMAIN nds |->
     IF nds[i].id = nodeId
     THEN [nds[i] EXCEPT !.keys = AddKey(nds[i].keys, "width"), !.width = width]
     ELSE nds[i]]

\* applyNodeChanges with the dragging flag of a position change
flaggedOf(nds, nodeId, dragging) ==
  [i \in DOMAIN nds |->
     IF nds[i].id = nodeId
     THEN [nds[i] EXCEPT !.keys = AddKey(nds[i].keys, "dragging"), !.dragging = dragging]
     ELSE nds[i]]

\* onNodesChange with a dimensions change
dimensionsChange(nodeId, width) ==
  /\ pc = "ready"
  /\ Commit(measuredOf(nodes, nodeId, width), edges, currentStep)
  /\ loadedRefs' = loadedRefs \ {nodeId}
  /\ UNCHANGED <<pc, isInitialLoadDone, pending, selectedNode, dragNode, dragAppends>>
  /\ listenerEffect
  /\ UNCHANGED <<editor, upload>>

Measure == \E id \in NodeIds(nodes), width \in Widths :
             /\ NodeById(nodes, id).width # width
             /\ dimensionsChange(id, width)
MeasureMove == \E id \in NodeIds(nodes) :
                 /\ NodeById(nodes, id).position # MaxPos
                 /\ moveNode(id, MaxPos)

InitMeasure == \E slot \in {SlotCurrent, SlotOlder} : Unmounted(slot)

NextMeasure ==
  \/ LoadEffect \/ MountSaveEffect \/ HydrateCommit
  \/ Measure \/ MeasureMove \/ DragStop
  \/ DeleteNode \/ Undo \/ Redo

SpecMeasure == InitMeasure /\ [][NextMeasure]_vars

(***************************************************************************)
(* The Editor component (editor-wrapper.tsx).  initEditor tests            *)
(* editorRef.current, then awaits the imports of the tools while it builds *)
(* the configuration, then constructs the EditorJS instance and stores it  *)
(* in editorRef.current.  The effect calls initEditor and does not await   *)
(* it; its cleanup destroys the instance editorRef.current holds.  The     *)
(* effect re-runs (cleanup, then the effect) when initEditor changes, that *)
(* is when holder, onChange or placeholder change.                         *)
(***************************************************************************)
flowVars == <<pc, nodes, edges, history, currentStep, isInitialLoadDone, storage,
              pending, selectedNode, dragNode, dragAppends, loadedRefs, listeners>>

\* initEditor up to its first await: if (!editorRef.current) { ... await import(...)
calledOf(e) ==
  IF e.editorRef = 0
  THEN [e EXCEPT !.inits = @ + 1, !.awaiting = @ + 1]
  ELSE [e EXCEPT !.inits = @ + 1]

\* initEditor after its last await: new EditorJS({...}); editorRef.current = editor
storedOf(e) ==
  LET instance == e.created + 1
  IN [e EXCEPT !.awaiting = @ - 1, !.created = instance,
               !.instances = @ \cup {instance}, !.editorRef = instance]

\* the cleanup: if (editorRef.current) { editorRef.current.destroy(); editorRef.current = undefined }
cleanedOf(e) ==
  IF e.editorRef # 0
  THEN [e EXCEPT !.instances = @ \ {e.editorRef}, !.editorRef = 0]
  ELSE e

\* the effect at mount
EditorMount ==
  /\ editor.phase = "rendered"
  /\ editor' = [calledOf(editor) EXCEPT !.phase = "mounted"]
  /\ UNCHANGED <<flowVars, upload>>

\* holder, onChange or placeholder changed: the cleanup, then the effect
EditorRerun ==
  /\ editor.phase = "mounted"
  /\ editor.inits < MaxInits
  /\ editor' = calledOf(cleanedOf(editor))
  /\ UNCHANGED <<flowVars, upload>>

\* the imports a call of initEditor awaits have resolved
EditorImported ==
  /\ editor.awaiting > 0
  /\ editor' = storedOf(editor)
  /\ UNCHANGED <<flowVars, upload>>

\* an import rejects: the call ends there, its promise is not handled
EditorImportFails ==
  /\ editor.awaiting > 0
  /\ editor' = [editor EXCEPT !.awaiting = @ - 1]
  /\ UNCHANGED <<flowVars, upload>>

\* the component unmounts: the cleanup
EditorUnmount ==
  /\ editor.phase = "mounted"
  /\ editor' = [cleanedOf(editor) EXCEPT !.phase = "unmounted"]
  /\ UNCHANGED <<flowVars, upload>>

InitEditor == Unmounted(NoItem)

NextEditor ==
  \/ EditorMount \/ EditorRerun
  \/ EditorImported \/ EditorImportFails
  \/ EditorUnmount

SpecEditor == InitEditor /\ [][NextEditor]_vars

(***************************************************************************)
(* The upload route (api/upload/route.ts).  POST runs from one await to    *)
(* the next: auth(), req.formData(), file.arrayBuffer(), the upload        *)
(* stream's callback.  Whatever throws inside the try block is answered by *)
(* the catch block.                                                        *)
(***************************************************************************)
\* what auth() resolves to: null, a session without a user id, a session of a user
Sessions == {"none", "anonymous", "user"}
\* what the body holds under "image": no form data at all, no entry, an
\* empty string, a string, a file
Images == {"notform", "none", "empty", "text", "file"}

Answered(u, status, success) ==
  [u EXCEPT !.pc = "answered", !.status = status, !.success = success]

\* variant of the guard: every session passes
authorized_Any(session) == TRUE
\* !session?.user?.id
authorized(session) == session = "user"

\* !file: formData.get("image") is null or ''
provided(image) == image \notin {"none", "empty"}

\* a request arrives
Request(image) ==
  /\ upload.pc \in {"idle", "answered"}
  /\ upload.hosted < MaxAssets
  /\ upload' = [UploadIdle EXCEPT !.pc = "auth", !.image = image, !.hosted = upload.hosted]
  /\ UNCHANGED <<flowVars, editor>>

\* const session = await auth(); if (!session?.user?.id) return 401
AuthResolves(session) ==
  /\ upload.pc = "auth"
  /\ LET u == [upload EXCEPT !.session = session]
     IN upload' = IF authorized(session)
                  THEN [u EXCEPT !.pc = "form"]
                  ELSE Answered(u, 401, FALSE)
  /\ UNCHANGED <<flowVars, editor>>

\* auth() rejects: the catch block answers
AuthRejects ==
  /\ upload.pc = "auth"
  /\ upload' = Answered([upload EXCEPT !.session = "error"], 500, FALSE)
  /\ UNCHANGED <<flowVars, editor>>

\* const formData = await req.formData(); const file = formData.get("image");
\* if (!file) return 400
FormData ==
  /\ upload.pc = "form"
  /\ LET u == [upload EXCEPT !.formRead = TRUE]
     IN upload' = IF upload.image = "notform" THEN Answered(u, 500, FALSE)
                  ELSE IF ~provided(upload.image) THEN Answered(u, 400, FALSE)
                  ELSE [u EXCEPT !.pc = "file"]
  /\ UNCHANGED <<flowVars, editor>>

\* const bytes = await file.arrayBuffer() (a string has no arrayBuffer), then
\* cloudinary.uploader.upload_stream(...).end(buffer)
ArrayBuffer ==
  /\ upload.pc = "file"
  /\ upload' = IF upload.image = "file"
               THEN [upload EXCEPT !.pc = "upload", !.started = TRUE]
               ELSE Answered(upload, 500, FALSE)
  /\ UNCHANGED <<flowVars, editor>>

\* the callback of upload_stream: if (error) reject(error); resolve(result)
\* (a promise that is rejected stays rejected); a rejection is answered by
\* the catch block, a result with the success payload
UploadCallback(error) ==
  /\ upload.pc = "upload"
  /\ upload' = IF error
               THEN Answered([upload EXCEPT !.failed = TRUE], 500, FALSE)
               ELSE Answered([upload EXCEPT !.hosted = @ + 1], 200, TRUE)
  /\ UNCHANGED <<flowVars, editor>>

InitUpload == Unmounted(NoItem)

NextUpload ==
  \/ \E image \in Images : Request(image)
  \/ \E session \in Sessions : AuthResolves(session)
  \/ AuthRejects
  \/ FormData
  \/ ArrayBuffer
  \/ \E error \in BOOLEAN : UploadCallback(error)

SpecUpload == InitUpload /\ [][NextUpload]_vars

TypeOK == /\ pc \in {"init", "loaded", "saved0", "ready"}
          /\ Len(history) <= MaxHist + 1

(***************************************************************************)
(* Properties                                                              *)
(***************************************************************************)
Ready == pc = "ready"
Snapshot(nds, eds) == FlowState(nodesToSave(nds), edgesToSave(eds))
CursorInRange == 0 <= currentStep /\ currentStep < Len(history)
\* the entry before the current one
PrevEntry == history[currentStep]
TouchesNode(edge, id) == edge.source = id \/ edge.target = id
HasEdge(eds, id) == \E i \in DOMAIN eds : TouchesNode(eds[i], id)

\* C1: every live edge has its source and its target among the ids of the
\* live nodes, in every state of a session that started from an empty graph
\* or from a graph the editor saved.
C1_CascadeDelete ==
  \A i \in DOMAIN edges :
     edges[i].source \in NodeIds(nodes) /\ edges[i].target \in NodeIds(nodes)

\* a node that had an edge was deleted: the entry before the current one
\* holds an edge of a node that is gone, other nodes are still there
C1_Witness ==
  /\ Ready /\ currentStep >= 1 /\ Len(nodes) >= 1
  /\ \E i \in DOMAIN PrevEntry.edges :
        \/ PrevEntry.edges[i].source \notin NodeIds(nodes)
        \/ PrevEntry.edges[i].target \notin NodeIds(nodes)

\* C2: after a mutation appended a snapshot (the cursor is on the last entry,
\* which is not the first), undo followed at once by redo gives back the
\* live nodes and edges (their id, position, shape, label, colour, content
\* and connection points; edges in all their fields) and the cursor.
C2_UndoRedoRoundTrip ==
  (Ready /\ currentStep >= 1 /\ currentStep = Len(history) - 1) =>
     LET back == redoOf(undoOf(Current))
     IN /\ nodesToSave(back.nodes) = nodesToSave(nodes)
        /\ edgesToSave(back.edges) = edgesToSave(edges)
        /\ back.currentStep = currentStep

\* the undo of the round trip shows another graph, the redo comes back
C2_Witness ==
  /\ Ready /\ currentStep >= 1 /\ currentStep = Len(history) - 1
  /\ Snapshot(undoOf(Current).nodes, undoOf(Current).edges) # Snapshot(nodes, edges)
  /\ undoOf(Current).currentStep = currentStep - 1
  /\ redoOf(undoOf(Current)).currentStep = currentStep

\* C3: in every state, mount included, 0 <= currentStep < history.length.
C3_CursorInRange == CursorInRange

\* the cursor is strictly inside a history of three entries or more
C3_Witness == Ready /\ 0 < currentStep /\ currentStep < Len(history) - 1

\* C4: between two intents, the entry under the cursor is the saved
\* projection of the live nodes and edges.
C4_CursorEntryIsLive ==
  Ready => (CursorInRange /\ history[currentStep + 1] = Snapshot(nodes, edges))

\* the live objects carry more than their projection and the cursor has moved
C4_Witness ==
  /\ Ready /\ currentStep >= 1 /\ Len(edges) >= 1
  /\ nodes # nodesToSave(nodes)

\* full structural equality of two objects: the same properties with the
\* same values, in whatever order
SameObject(a, b) ==
  /\ Range(a.keys) = Range(b.keys)
  /\ [a EXCEPT !.keys = << >>] = [b EXCEPT !.keys = << >>]
SameObjects(as, bs) ==
  /\ Len(as) = Len(bs)
  /\ \A i \in DOMAIN as : SameObject(as[i], bs[i])
SameSnapshot(a, b) == SameObjects(a.nodes, b.nodes) /\ SameObjects(a.edges, b.edges)

\* undo and redo when they move the cursor: their effect records at the new one
undoMoves == currentStep > 0 /\ undo
redoMoves == currentStep < Len(history) - 1 /\ redo

C6_TruncateOnRecord ==
  [][(Ready /\ currentStep < Len(history) - 1 /\ history' # history /\ ~undo /\ ~redo)
       => /\ history' = Append(SubSeq(history, 1, currentStep + 1), Snapshot(nodes', edges'))
          /\ currentStep' = Len(history') - 1
          /\ redoOf(Current') = Current']_vars

\* an id that was minted occurs nowhere any more: the entry that held it was
\* dropped, and the cursor is on the last entry
C6_Witness ==
  /\ Ready /\ currentStep = Len(history) - 1
  /\ \E id \in UsedIds \ {0} : \E j \in 1..(id - 1) : j \notin UsedIds

\* C7: deleting a node that has edges appends exactly one entry, without the
\* node and without its edges; no entry holds an edge of a node it does not
\* hold; and one undo shows the node and all its edges again, as they were
\* saved.
C7_DeleteIsOneEntry ==
  [][\A id \in NodeIds(nodes) :
       (Ready /\ HasEdge(edges, id) /\ handleDeleteNode(id))
         => /\ Len(history') = currentStep + 2
            /\ currentStep' = currentStep + 1
            /\ SubSeq(history', 1, currentStep + 1) = SubSeq(history, 1, currentStep + 1)
            /\ id \notin NodeIds(history'[currentStep' + 1].nodes)
            /\ ~HasEdge(history'[currentStep' + 1].edges, id)
            /\ \A k \in DOMAIN history' : \A i \in DOMAIN history'[k].edges :
                  /\ history'[k].edges[i].source \in NodeIds(history'[k].nodes)
                  /\ history'[k].edges[i].target \in NodeIds(history'[k].nodes)
            /\ undoOf(Current').nodes = nodesToSave(nodes)
            /\ undoOf(Current').edges = edgesToSave(edges)]_vars

\* the last entry was appended by the deletion of a node with edges: the
\* entry before it holds the node and its edges, and undo shows them
C7_Witness ==
  /\ Ready /\ currentStep >= 1 /\ currentStep = Len(history) - 1 /\ Len(nodes) >= 1
  /\ \E id \in NodeIds(PrevEntry.nodes) \ NodeIds(nodes) :
        /\ HasEdge(PrevEntry.edges, id)
        /\ HasEdge(undoOf(Current).edges, id)

\* C8: the position updates of one drag gesture add at most one history
\* entry.
C8_DragIsOneEntry == dragAppends <= 1

\* C9: while the editor is mounted no handler changes an entry at or before
\* the cursor, not even the first entry, whose node objects the live graph
\* holds after the load; an entry beyond the cursor either stays or is
\* dropped; the only new content is the entry appended right after the cursor.
C9_SnapshotsImmutable ==
  [][Ready =>
       /\ \A i \in 1..(currentStep + 1) : i \in DOMAIN history' /\ history'[i] = history[i]
       /\ \A i \in DOMAIN history' :
             i > currentStep + 1 =>
                \/ (i \in DOMAIN history /\ history'[i] = history[i])
                \/ (i = currentStep + 2 /\ i = Len(history'))]_vars

\* a node that was the object of the first entry was given other data: the
\* live node is a new object and the first entry still holds the loaded data
C9_Witness ==
  /\ Ready /\ currentStep >= 1
  /\ \E id \in (NodeIds(history[1].nodes) \cap NodeIds(nodes)) \ loadedRefs :
        NodeById(nodes, id).data # NodeById(history[1].nodes, id).data

\* C10: undo with the cursor on the first entry and redo with the cursor on
\* the last entry change neither the live nodes and edges nor the entries nor
\* the cursor.
C10_NoOpAtEnds ==
  [][/\ (Ready /\ currentStep = 0 /\ undo)
          => UNCHANGED <<nodes, edges, history, currentStep>>
     /\ (Ready /\ currentStep = Len(history) - 1 /\ redo)
          => UNCHANGED <<nodes, edges, history, currentStep>>]_vars

\* the cursor is on the first of several entries under live objects that
\* are not the stored ones: undo has nothing to do, redo has
C10_Witness ==
  /\ Ready /\ currentStep = 0 /\ Len(history) >= 2
  /\ nodes # history[1].nodes
  /\ undoOf(Current) = Current /\ redoOf(Current) # Current

LabelOf(nds, id) == NodeById(nds, id).data.label
\* what the spec tells of a node
NodeView(n) ==
  [id |-> n.id, position |-> n.position, shape |-> n.data.nodeCategory, type |-> n.type,
   label |-> n.data.label, color |-> n.data.color, content |-> n.data.content,
   handles |-> [h \in DOMAIN n.data.customHandles |-> n.data.customHandles[h].id]]

\* C11: a rename that gives a node another label appends exactly one
\* entry: the entries up to the cursor stay, the new last entry holds the
\* node with the new label and nothing else changed, the cursor is on it, and
\* one undo shows the label the node had before the rename.  Three renames to different labels therefore add three
\* entries and two undos show the label of the first.
C11_RenameIsOneEntry ==
  [][\A id \in NodeIds(nodes) : \A l \in RenameLabels :
       (Ready /\ LabelOf(nodes, id) # l /\ updateNodeData(id, "label", l))
         => /\ Len(history') = currentStep + 2
            /\ currentStep' = currentStep + 1
            /\ SubSeq(history', 1, currentStep + 1) = SubSeq(history, 1, currentStep + 1)
            /\ NodeView(NodeById(history'[currentStep' + 1].nodes, id))
                 = [NodeView(NodeById(nodes, id)) EXCEPT !.label = l]
            /\ LabelOf(history'[currentStep'].nodes, id) = LabelOf(nodes, id)
            /\ undoOf(Current').currentStep = currentStep
            /\ undoOf(Current').nodes = nodesToSave(nodes)]_vars

\* a node was added and renamed three times to pairwise different labels,
\* then two undos were taken: the label is the one of the first rename
C11_Witness ==
  /\ Ready /\ Len(history) = 5 /\ currentStep = 2 /\ Len(nodes) = 1
  /\ history[1].nodes = << >>
  /\ \A k \in 2..5 : NodeIds(history[k].nodes) = NodeIds(nodes)
  /\ \E id \in NodeIds(nodes) :
        /\ LabelOf(history[2].nodes, id) \notin RenameLabels
        /\ Cardinality({LabelOf(history[k].nodes, id) : k \in 3..5}) = 3
        /\ LabelOf(nodes, id) = LabelOf(history[3].nodes, id)

\* what the spec compares of two graphs
EdgeView(e) ==
  [id |-> e.id, source |-> e.source, target |-> e.target,
   sourceHandle |-> e.sourceHandle, targetHandle |-> e.targetHandle]
GraphView(nds, eds) ==
  [nodes |-> [i \in DOMAIN nds |-> NodeView(nds[i])],
   edges |-> [i \in DOMAIN eds |-> EdgeView(eds[i])]]
\* the graph a mount finds in the item the save effect writes for nds and eds
saveThenLoad(nds, eds) == LoadResult(Serialize(nodesToSave(nds), edgesToSave(eds)))

\* C12: for every graph the editor reaches, writing the item and loading it
\* gives the same node ids, positions, shapes, labels, colors, content and
\* connection-point ids, and the same edge ids, endpoints and handles.
C12_SaveLoadRoundTrip ==
  Ready => LET r == saveThenLoad(nodes, edges)
           IN GraphView(r.nodes, r.edges) = GraphView(nodes, edges)

\* a graph with an edge and a renamed node is written and loaded
C12_Witness ==
  /\ Ready /\ edges # << >>
  /\ \E i \in DOMAIN nodes : nodes[i].data.label \in UserLabels
  /\ saveThenLoad(nodes, edges).edges # << >>

\* C13: in every settled state after the initial load, whatever operation
\* led to it (undo, redo and clear included), the stored item is the text of
\* the projection of the live nodes and edges.
C13_SlotHoldsProjection ==
  Ready => storage = Serialize(nodesToSave(nodes), edgesToSave(edges))

\* an undo has restored a graph with a node, and the item holds it
C13_Witness ==
  /\ Ready /\ currentStep < Len(history) - 1 /\ nodes # << >>
  /\ storage.kind = "json" /\ Len(storage.nodes) = Len(nodes)
  /\ history[currentStep + 2].nodes # nodesToSave(nodes)

EmptyGraph == FlowState(<< >>, << >>)

\* C14: when the load effect catches an error, of JSON.parse or of mapping
\* the parsed value, it removes the item and the initial state it queues for
\* nodes, edges and history is the empty graph: no node and no edge.
C14_FailedLoadStartsEmpty ==
  [][(pc = "init" /\ LoadResult(storage).caught)
       => /\ pc' = "loaded"
          /\ storage' = NoItem
          /\ pending' = EmptyGraph]_vars

\* the render of a mounted editor ended without the item holding the live graph
WriteFailed == storage # Serialize(nodesToSave(nodes), edgesToSave(edges))

\* C15: when the write of the item throws, the error does not leave the
\* persistence step: the editor stays mounted with the graph the handler
\* made, and the history is updated as it is after a successful write.
C15_WriteFailureIsCaught ==
  [][(Ready /\ WriteFailed')
       => LET r == SaveEffect(TRUE, nodes', edges', history, currentStep, storage)
          IN /\ pc' = "ready"
             /\ history' = r.history
             /\ currentStep' = r.currentStep]_vars

\* the load effect has just run on an item that parses
LoadStep == pc = "init" /\ pc' = "loaded" /\ storage.kind = "json"
UnknownShape(stored) == stored.type \notin Shapes /\ stored.data.nodeCategory \notin Shapes

\* C16: a stored node whose nodeCategory and type are both unknown is loaded
\* as a rectangle whose connection points are the defaults of a rectangle
\* for its id, whatever connection points were stored with it.
C16_UnknownShapeGetsDefaults ==
  [][LoadStep
       => \A i \in DOMAIN storage.nodes :
            LET stored == ParseNodes(storage.nodes)[i]
                loaded == pending'.nodes[i]
            IN UnknownShape(stored)
                 => /\ loaded.data.nodeCategory = "rectangle"
                    /\ loaded.data.customHandles = getDefaultHandlesForShape("rectangle", stored.id)]_vars

\* the invariants of a node: a known shape, the type tag equal to it, and a
\* non-empty list of connection points of that shape
ValidNode(n) ==
  /\ n.data.nodeCategory \in Shapes
  /\ n.type = n.data.nodeCategory
  /\ Len(n.data.customHandles) > 0
  /\ Range(n.data.customHandles) \subseteq Range(getDefaultHandlesForShape(n.data.nodeCategory, n.id))

\* C17: the nodes that become live when the load of an item that parses is
\* committed all satisfy the invariants of a node.
C17_LoadedNodesValid ==
  [][(pc = "saved0" /\ pc' = "ready") => \A i \in DOMAIN nodes' : ValidNode(nodes'[i])]_vars

\* C18: deleteNode for an id leaves no node of that id, and for an id that
\* is not among the nodes it changes neither nodes nor edges nor the history
\* nor the cursor (nor the item); so a second deleteNode for the same id
\* changes nothing.
C18_DeleteAbsentIsNoOp ==
  [][\A id \in (NodeIds(nodes) \cup {selectedNode}) \ {0} :
       (Ready /\ handleDeleteNode(id))
         => /\ id \notin NodeIds(nodes')
            /\ ~HasEdge(edges', id)
            /\ id \notin NodeIds(nodes)
                 => UNCHANGED <<pc, nodes, edges, history, currentStep, storage>>]_vars

\* the selected node is no longer on the canvas, next to a node that is
C18_Witness ==
  /\ Ready /\ selectedNode # 0 /\ selectedNode \notin NodeIds(nodes)
  /\ nodes # << >> /\ currentStep + 2 <= MaxHist

\* the ids of the connection points of a node
PointIds(node) ==
  {node.data.customHandles[i].id : i \in DOMAIN node.data.customHandles}
\* the ids of the connection points of every shape a node can have
EverHandleIds(id) ==
  UNION {{getDefaultHandlesForShape(shape, id)[i].id :
            i \in DOMAIN getDefaultHandlesForShape(shape, id)} : shape \in Shapes}

\* C19: onConnect adds an edge only when, as it is called, sourceHandle is a
\* connection point of the source node and targetHandle is one of the target
\* node; otherwise the edges stay as they are.
C19_ConnectValidatesHandles ==
  [][\A s \in NodeIds(nodes), t \in NodeIds(nodes) :
       \A sh \in EverHandleIds(s), th \in EverHandleIds(t) :
         (Ready /\ edges' # edges /\ onConnect(s, sh, t, th))
           => /\ sh \in PointIds(NodeById(nodes, s))
              /\ th \in PointIds(NodeById(nodes, t))]_vars

\* every handle an edge names is a connection point of the node it names
NoDanglingHandle(nds, eds) ==
  \A i \in DOMAIN eds :
    /\ eds[i].source \in NodeIds(nds) => eds[i].sourceHandle \in PointIds(NodeById(nds, eds[i].source))
    /\ eds[i].target \in NodeIds(nds) => eds[i].targetHandle \in PointIds(NodeById(nds, eds[i].target))

\* C20: in every settled state, after changeShape, undo and redo too, the
\* sourceHandle of every live edge is a connection point of its source node
\* and the targetHandle one of its target node.
C20_NoDanglingHandle == Ready => NoDanglingHandle(nodes, edges)

\* C21: a connection between a source handle and a target handle of two
\* rendered nodes is added whatever edges there are: the edges grow by one
\* edge with an id of its own, also when an edge joins that handle pair
\* already.
C21_ParallelEdges ==
  Ready =>
    \A s \in NodeIds(nodes), t \in NodeIds(nodes) :
      \A sh \in HandleIds(NodeById(nodes, s), "source"),
         th \in HandleIds(NodeById(nodes, t), "target") :
        s # t =>
          LET eds == addEdge(newEdgeOf(s, sh, t, th), edges)
          IN /\ Len(eds) = Len(edges) + 1
             /\ eds[Len(eds)].id \notin {edges[i].id : i \in DOMAIN edges}

\* how many of the points are of a type on a side
PointsAt(pts, type, position) ==
  Cardinality({i \in DOMAIN pts : pts[i].type = type /\ pts[i].position = position})

\* C22: for the id of every node on the canvas, the defaults of a rectangle
\* are two points, a target on the left and a source on the right, and the
\* defaults of a circle are eight points: two targets on the top, two sources
\* on the bottom, two targets on the left and two sources on the right.
C22_DefaultPointCounts ==
  Ready =>
    \A id \in NodeIds(nodes) :
      LET r == getDefaultHandlesForShape("rectangle", id)
          c == getDefaultHandlesForShape("circle", id)
      IN /\ Len(r) = 2
         /\ PointsAt(r, "target", "left") = 1 /\ PointsAt(r, "source", "right") = 1
         /\ Len(c) = 8
         /\ PointsAt(c, "target", "top") = 2 /\ PointsAt(c, "source", "bottom") = 2
         /\ PointsAt(c, "target", "left") = 2 /\ PointsAt(c, "source", "right") = 2

\* the number a label ends with: its last word is a number, -1 when not
NumericSuffix(label) == IF label.rest = "" THEN label.n ELSE -1
OthersOfShape(nds, id, shape) ==
  Cardinality({j \in DOMAIN nds : nds[j].id # id /\ nds[j].data.nodeCategory = shape})

\* C23: a shape change sets the label of the node to the name of the new
\* shape and a number: the number the old label ends with when it ends with
\* one, otherwise one plus the number of other nodes of the new shape.
C23_ReshapeLabel ==
  [][\A id \in NodeIds(nodes), newType \in Shapes :
       (Ready /\ changeNodeType(id, newType))
         => LET old == LabelOf(nodes, id)
                n == IF NumericSuffix(old) # -1 THEN NumericSuffix(old)
                     ELSE OthersOfShape(nodes, id, newType) + 1
            IN LabelOf(nodes', id) = Label(Capitalize(newType), n)]_vars

\* the nodes other than id, in their order
OtherNodes(nds, id) == SelectSeq(nds, LAMBDA n : n.id # id)

\* C24: after a shape change the node has the new shape as shape and as
\* type tag and exactly the default connection points of the new shape for
\* its id, whatever points it had; its id, position, color and content, the
\* other nodes and the edges are as before.
C24_ReshapeFrame ==
  [][\A id \in NodeIds(nodes), newType \in Shapes :
       (Ready /\ changeNodeType(id, newType))
         => LET old == NodeById(nodes, id)
                new == NodeById(nodes', id)
            IN /\ NodeIds(nodes') = NodeIds(nodes) /\ Len(nodes') = Len(nodes)
               /\ new.data.nodeCategory = newType /\ new.type = newType
               /\ new.data.customHandles = getDefaultHandlesForShape(newType, id)
               /\ new.position = old.position
               /\ new.data.color = old.data.color
               /\ new.data.content = old.data.content
               /\ OtherNodes(nodes', id) = OtherNodes(nodes, id)
               /\ edges' = edges]_vars

\* a node that had other points than the defaults of its shape has changed
\* its shape and has the defaults of the new one
C24_Witness ==
  /\ Ready /\ currentStep > 0
  /\ \E id \in NodeIds(nodes) \cap NodeIds(PrevEntry.nodes) :
       LET old == NodeById(PrevEntry.nodes, id)
           new == NodeById(nodes, id)
       IN /\ old.data.nodeCategory # new.data.nodeCategory
          /\ old.data.customHandles # getDefaultHandlesForShape(old.data.nodeCategory, id)
          /\ new.data.customHandles = getDefaultHandlesForShape(new.data.nodeCategory, id)

\* the render after a handler left nds: nothing of the graph, of the history
\* or of the item has changed
NothingChanges(nds) ==
  LET r == SaveEffect(isInitialLoadDone, nds, edges, history, currentStep, storage)
  IN /\ nds = nodes
     /\ r.history = history /\ r.currentStep = currentStep /\ r.storage = storage

\* C25: for an id that no node on the canvas has, the shape change and the
\* update of label, color or content leave the nodes as they are, and the render
\* that follows changes neither the edges nor the history nor the cursor.
C25_AbsentIdIsNoOp ==
  Ready =>
    \A id \in GoneIds :
      /\ \A newType \in Shapes : NothingChanges(withNodeType(nodes, id, newType))
      /\ \A l \in UserLabels : NothingChanges(withNodeData(nodes, id, "label", l))
      /\ \A c \in Palette : NothingChanges(withNodeData(nodes, id, "color", c))
      /\ NothingChanges(withNodeData(nodes, id, "content", "note"))

\* a node is gone, another is on the canvas without the label an update
\* would give, and the history has room for an entry
C25_Witness ==
  /\ Ready /\ CanRecord /\ GoneIds # {} /\ nodes # << >>
  /\ \A i \in DOMAIN nodes : nodes[i].data.label \notin UserLabels

\* the values the controls of a node give a field
FieldValues(field) ==
  CASE field = "label"   -> UserLabels
    [] field = "color"   -> Palette
    [] field = "content" -> {"", "note"}

\* C26: an update of the label, the color or the content of a node changes
\* that field of that node and nothing else: its id, position, shape, type
\* tag, connection points and other fields, the other nodes and the edges
\* are as before.
C26_UpdateFrame ==
  [][\A id \in NodeIds(nodes), field \in {"label", "color", "content"} :
       \A value \in FieldValues(field) :
         (Ready /\ updateNodeData(id, field, value))
           => /\ NodeIds(nodes') = NodeIds(nodes) /\ Len(nodes') = Len(nodes)
              /\ NodeView(NodeById(nodes', id))
                   = [NodeView(NodeById(nodes, id)) EXCEPT ![field] = value]
              /\ NodeById(nodes', id).data.customHandles = NodeById(nodes, id).data.customHandles
              /\ OtherNodes(nodes', id) = OtherNodes(nodes, id)
              /\ edges' = edges]_vars

\* next to another node and an edge, a node has got a label it did not have
C26_Witness ==
  /\ Ready /\ currentStep > 0 /\ Len(nodes) > 1 /\ edges # << >>
  /\ NodeIds(PrevEntry.nodes) = NodeIds(nodes)
  /\ \E id \in NodeIds(nodes) :
       /\ LabelOf(nodes, id) \in UserLabels
       /\ LabelOf(PrevEntry.nodes, id) \notin UserLabels
       /\ OtherNodes(nodesToSave(nodes), id) = OtherNodes(PrevEntry.nodes, id)

\* C27: createNode appends one node to the live collection: its label is the
\* capitalised shape and one plus the number of live nodes of that shape, its
\* content is empty, its connection points are the defaults of the shape for
\* its id; the nodes there were and the edges stay as they were.
C27_CreateAppends ==
  [][\A nodeCat \in Shapes, position \in CreatePositions, color \in Palette :
       (Ready /\ createNode(nodeCat, position, color))
         => /\ Len(nodes') = Len(nodes) + 1
            /\ SubSeq(nodes', 1, Len(nodes)) = nodes
            /\ LET n == nodes'[Len(nodes')]
               IN /\ n.data.label = Label(Capitalize(nodeCat), 1 + OthersOfShape(nodes, 0, nodeCat))
                  /\ n.data.nodeCategory = nodeCat /\ n.type = nodeCat
                  /\ n.position = position
                  /\ n.data.content = ""
                  /\ n.data.customHandles = getDefaultHandlesForShape(nodeCat, n.id)
                  /\ n.id \notin NodeIds(nodes)
            /\ edges' = edges]_vars

C27_Witness ==
  /\ Ready /\ currentStep > 0 /\ edges # << >>
  /\ Len(nodes) = Len(PrevEntry.nodes) + 1
  /\ SubSeq(nodes, 1, Len(nodes) - 1) = PrevEntry.nodes
  /\ \E i \in 1..(Len(nodes) - 1) :
        nodes[i].data.nodeCategory = nodes[Len(nodes)].data.nodeCategory
  /\ nodes[Len(nodes)].data.label.n = 2

IdSeq(nds) == [i \in DOMAIN nds |-> nds[i].id]
DistinctIds(nds) == \A i, j \in DOMAIN nds : i # j => nds[i].id # nds[j].id
\* the ids of the nodes of a that b holds too, in the order of a
Staying(a, b) == SelectSeq(IdSeq(a), LAMBDA id : id \in NodeIds(b))

\* C28: in a session that starts on an empty canvas the live nodes have
\* pairwise different ids after every step.  A step that neither adds nor
\* removes a node (a move, a field update, a shape change, a connect, an undo
\* or redo of one of these) leaves every node under its id, and in every
\* step the nodes that stay in the collection stay under their ids.
C28_NodeIdsStable ==
  [][/\ DistinctIds(nodes')
     /\ Len(nodes') = Len(nodes) => IdSeq(nodes') = IdSeq(nodes)
     /\ Staying(nodes', nodes) = Staying(nodes, nodes')]_vars

C28_Witness ==
  /\ Ready /\ currentStep > 0 /\ Len(nodes) > 1
  /\ DistinctIds(nodes)
  /\ edges # << >> /\ PrevEntry.edges = << >>
  /\ IdSeq(PrevEntry.nodes) = IdSeq(nodes)

\* every node object of the session: the live ones and those of the history
Records == Range(nodes) \cup UNION {Range(history[i].nodes) : i \in DOMAIN history}
Suffixes(n) == [i \in DOMAIN n.data.customHandles |-> n.data.customHandles[i].id[2]]
BuiltOnNodeId(n) == \A i \in DOMAIN n.data.customHandles : n.data.customHandles[i].id[1] = n.id
SameDefaults(ns) ==
  /\ \A n \in ns : BuiltOnNodeId(n)
  /\ \A n1 \in ns, n2 \in ns :
        /\ n1.data.nodeCategory = n2.data.nodeCategory => Suffixes(n1) = Suffixes(n2)
        /\ (n1.data.nodeCategory = n2.data.nodeCategory /\ n1.id = n2.id)
              => n1.data.customHandles = n2.data.customHandles

\* C30 as stated: the points the registry returns for a shape and a node id
\* are the same on every call, and the id of each point is the node id
\* followed by a suffix that depends on the shape only, whatever the node
\* id is.
C30_DefaultsDeterministic == Ready => SameDefaults(Records)

\* C30, amended: this holds for every node id that is not empty; for an
\* empty node id the ids of the points are built on a generated id.
C30_DefaultsOfNamedNodes ==
  Ready => /\ SameDefaults({n \in Records : n.id # 0})
           /\ \A n \in Records : n.id = 0 => ~BuiltOnNodeId(n)

C30_Witness ==
  /\ Ready /\ currentStep > 1
  /\ \E id \in NodeIds(nodes) \ {0} :
        LET now == NodeById(nodes, id)
            before == NodeById(history[currentStep].nodes, id)
            first == NodeById(history[currentStep - 1].nodes, id)
        IN /\ now.data.nodeCategory # before.data.nodeCategory
           /\ now.data.nodeCategory = first.data.nodeCategory
           /\ now.data.customHandles = first.data.customHandles
           /\ now.data.customHandles # << >>

DistinctPointIds(n) ==
  \A i, j \in DOMAIN n.data.customHandles :
    i # j => n.data.customHandles[i].id # n.data.customHandles[j].id

\* C29: the connection points of a node have pairwise different ids after
\* every step, and over a step a node that stays in the collection with the
\* shape it had (it was moved, relabelled, connected, or another node was
\* added or removed) has the connection points it had.
C29_PointsFollowShape ==
  [][/\ \A i \in DOMAIN nodes' : DistinctPointIds(nodes'[i])
     /\ \A id \in NodeIds(nodes) \cap NodeIds(nodes') :
          NodeById(nodes', id).data.nodeCategory = NodeById(nodes, id).data.nodeCategory
            => NodeById(nodes', id).data.customHandles = NodeById(nodes, id).data.customHandles]_vars

C29_Witness ==
  /\ Ready /\ currentStep > 1 /\ Len(nodes) = 1
  /\ Len(PrevEntry.nodes) = 2
  /\ \E id \in NodeIds(nodes) :
        LET now == NodeById(nodes, id)
            before == NodeById(PrevEntry.nodes, id)
        IN /\ now.data.customHandles = before.data.customHandles
           /\ Len(now.data.customHandles) > 2
           /\ DistinctPointIds(now)

\* C31: for a shape that is neither rectangle nor circle the registry
\* returns the empty sequence and the caller goes on: the node of the
\* message carries no connection points and the component is not taken down.
C31_UnknownShapeIsEmpty ==
  /\ pc # "error"
  /\ \A shape \in ForeignShapes, id \in NodeIds(nodes) :
        getDefaultHandlesForShape(shape, id) = << >>
  /\ \A n \in Records : n.data.nodeCategory \notin Shapes => n.data.customHandles = << >>

C31_Witness ==
  /\ Ready /\ currentStep > 0
  /\ \E id \in NodeIds(nodes) :
        /\ NodeById(nodes, id).data.nodeCategory \in ForeignShapes
        /\ NodeById(nodes, id).data.customHandles = << >>
        /\ NodeById(PrevEntry.nodes, id).data.customHandles # << >>

\* C32: at any time the window holds at most one listener set for the three
\* message kinds, so a dispatched message runs its handler at most once;
\* before the effects of the mount have run it holds none, and a message
\* finds nothing to run; once the editor is ready it holds exactly the set
\* of the latest render (its handlers closed over the live selection),
\* through every re-subscription that a change of the nodes or of the
\* selection triggers.
C32_OneListenerPerKind ==
  /\ Len(listeners) <= 1
  /\ pc \in {"init", "loaded"} => listeners = << >>
  /\ Ready => /\ Len(listeners) = 1
              /\ listeners[1].selectedNode = selectedNode

C32_Witness ==
  /\ Ready /\ currentStep > 0 /\ selectedNode # 0
  /\ selectedNode \in NodeIds(nodes)
  /\ Len(nodes) < Len(PrevEntry.nodes)
  /\ listeners = <<[selectedNode |-> selectedNode]>>

\* C33 as stated: the first entry of the history is the empty graph in every
\* state.
C33_FirstEntryEmpty == history[1] = FlowState(<< >>, << >>)

\* C33, amended: once the editor is ready the first entry of the history is
\* the graph the load effect produced (the empty graph for an absent slot,
\* the stored graph for a readable one), and with the cursor on it the live
\* graph is that graph.
C33_FirstEntryIsHydrated ==
  Ready => /\ history[1] = FlowState(pending.nodes, pending.edges)
           /\ currentStep = 0 => Snapshot(nodes, edges) = Snapshot(history[1].nodes, history[1].edges)

C33_Witness ==
  /\ Ready /\ currentStep = 0 /\ Len(history) > 1
  /\ history[1].nodes # << >>
  /\ history[1] = FlowState(pending.nodes, pending.edges)
  /\ Snapshot(nodes, edges) # Snapshot(history[2].nodes, history[2].edges)

\* C34: clearAll leaves both collections empty.  On a graph that holds a
\* node it appends exactly one entry, the empty graph, after the entry under
\* the cursor, and one undo from there brings back the graph as it was; on
\* an empty graph it appends nothing and the cursor stays.
C34_ClearIsOneEntry ==
  (Ready /\ dragNode = 0) =>
    LET after == clearedOf(Current)
    IN /\ after.nodes = << >> /\ after.edges = << >>
       /\ nodes # << >> =>
            /\ after.currentStep = currentStep + 1
            /\ after.history = Append(SubSeq(history, 1, currentStep + 1), FlowState(<< >>, << >>))
            /\ Snapshot(undoOf(after).nodes, undoOf(after).edges) = Snapshot(nodes, edges)
            /\ undoOf(after).currentStep = currentStep
       /\ nodes = << >> =>
            /\ after.history = history
            /\ after.currentStep = currentStep

C34_Witness ==
  /\ Ready /\ currentStep > 0
  /\ nodes = << >> /\ edges = << >>
  /\ Len(PrevEntry.nodes) > 1 /\ PrevEntry.edges # << >>
  /\ currentStep = Len(history) - 1
  /\ clearedOf(Current).history = history

HoldsGraph(item) == item.kind = "json" /\ item.nodes # << >>
Startup == pc \in {"init", "loaded", "saved0"}

\* C35: while the editor starts (up to the render that makes the loaded
\* graph the live one) no effect run writes the history, and a slot that
\* holds a graph with nodes keeps holding one: it is not overwritten with
\* the empty graph.
C35_SlotSurvivesStartup ==
  [][Startup => /\ pc' # "ready" => history' = history
                /\ HoldsGraph(storage) => HoldsGraph(storage')]_vars

\* C36: undo and redo leave the entries of the history as they are, in
\* number and in content, whatever the history is; only the cursor and the
\* live graph change.
C36_UndoRedoKeepEntries ==
  Ready => /\ undoOf(Current).history = history
           /\ redoOf(Current).history = history

\* C37: the selection is consistent with the graph: a selected node is one
\* of the live nodes, after any clicks, deletions, clearAll, undo and redo.
C37_SelectionIsLive ==
  Ready /\ selectedNode # 0 => selectedNode \in NodeIds(nodes)

\* a step that only stores a measured width on a live node or only sets the
\* dragging flag of one
MeasuredOnly ==
  \/ \E id \in NodeIds(nodes), width \in Widths : nodes' = measuredOf(nodes, id, width)
  \/ \E id \in NodeIds(nodes), dragging \in BOOLEAN : nodes' = flaggedOf(nodes, id, dragging)

\* C38: a change of the live nodes that touches only properties outside the
\* saved projection (a measured width, the dragging flag) appends no
\* history entry and leaves the cursor where it is.
C38_UnsavedChangeKeepsHistory ==
  [][Ready /\ edges' = edges /\ MeasuredOnly
       => history' = history /\ currentStep' = currentStep]_vars

C38_Witness ==
  /\ Ready /\ dragNode = 0 /\ currentStep = 1 /\ Len(history) = 2
  /\ \E i \in DOMAIN nodes :
       /\ nodes[i].width = 160 /\ "width" \in Range(nodes[i].keys)
       /\ "width" \notin Range(history[currentStep + 1].nodes[i].keys)

\* C39: an Editor component has at most one EditorJS instance that was
\* created and not destroyed, and once the component has unmounted and no
\* call of initEditor is under way any more, it has none.
C39_SingleEditorInstance ==
  /\ Cardinality(editor.instances) <= 1
  /\ editor.phase = "unmounted" /\ editor.awaiting = 0 => editor.instances = {}

AnsweredRequest == upload.pc = "answered"

====
